---- MODULE Spec2Model ----
(***************************************************************************)
(* ZERO Execution Engine (src/index.tsx).  The file holds two revisions of *)
(* the App component: the first (lines 1-1261) with chain mode, the second *)
(* (lines 1262-2581) with useSessionPersistence, constructPrompt and       *)
(* updateSessionMessages.  The variable rev says which revision runs.      *)
(*                                                                         *)
(* One action is one handler, or one resumption of an async handler after  *)
(* an await, together with the render and the effects React runs after it  *)
(* (the save effect, the chat rehydration effect, and the in-place sort    *)
(* that SessionsModal performs on the sessions array while it is open).    *)
(*                                                                         *)
(* Texts are strings.  The long literals of the source (MASTER_PROMPT, the *)
(* error texts) are abbreviated; the tags the code searches for are kept.  *)
(* userInput, critique, attachment, isChainMode and standingConstraints    *)
(* are written by input handlers that touch nothing else and are read only *)
(* by handleSendMessage, so they are drawn at the submission.              *)
(* Date.now() is the variable now; the clock advances by Tick only, so two *)
(* handlers can read the same value.                                       *)
(***************************************************************************)
EXTENDS Integers, Sequences, FiniteSets, TLC

----------------------------------------------------------------------------
\* Bounds of the model.  They limit what the environment does (the user, the
\* clock, the model service), in the next-state relations at the end; the
\* handlers themselves carry no bound.

\* Value of Date.now() when the behaviour starts.
ClockStart == 10
\* Times the clock advances while sessions are managed / turns are taken.
MaxClock == 2
TurnMaxClock == 1
\* Operations the user starts over one behaviour (an accepted submission, a
\* translation, a new session, an activation, a delete, a rename) while
\* sessions are managed / turns are taken.
MaxOps == 4
TurnMaxOps == 3
\* handleNewSession calls in flight at once.
MaxPendingNew == 1
\* Page reloads over one behaviour.
MaxReloads == 1
\* Chunks of one model stream.
MaxChunks == 1
\* Turns in flight at once (the code is expected to keep this at one).
MaxInFlight == 2
\* Session creation: the clock ticks, the handleNewSession calls the user
\* starts, and those in flight at once.
CreateMaxClock == 1
CreateMaxOps == 3
MaxCreations == 2
\* Stage decisions and names: the operations the user starts, and the chunks
\* of a stream.
StageMaxOps == 2
StageMaxChunks == 2

RedactMaxOps == 2

RedactMaxChunks == 1

ParseMaxOps == 2

TranslateMaxOps == 3

FrameMaxClock == 1

FrameMaxOps == 3

\* The shortest run of characters of the secret that counts as a part of it.
PartLen == 4

\* userMessageContent.substring(0, 50)
NameLimit == 50

----------------------------------------------------------------------------
\* Optional fields (undefined / null in the source).

None == <<>>

Some(x) == <<x>>

Min(a, b) == IF a < b THEN a ELSE b

\* String.prototype.includes
includes(text, pat) ==
    \E i \in 1..(Len(text) - Len(pat) + 1) : SubSeq(text, i, i + Len(pat) - 1) = pat

\* String.prototype.substring(0, n)
substring(text, n) == SubSeq(text, 1, Min(n, Len(text)))

IsSpace(c) == c \in {" ", "\n", "\t"}

RECURSIVE trimStart(_)
trimStart(text) ==
    IF Len(text) > 0 /\ IsSpace(SubSeq(text, 1, 1))
    THEN trimStart(SubSeq(text, 2, Len(text)))
    ELSE text

RECURSIVE trimEnd(_)
trimEnd(text) ==
    IF Len(text) > 0 /\ IsSpace(SubSeq(text, Len(text), Len(text)))
    THEN trimEnd(SubSeq(text, 1, Len(text) - 1))
    ELSE text

\* String.prototype.trim
trim(text) == trimEnd(trimStart(text))

UpperCase == <<"A","B","C","D","E","F","G","H","I","J","K","L","M",
               "N","O","P","Q","R","S","T","U","V","W","X","Y","Z">>

LowerCase == <<"a","b","c","d","e","f","g","h","i","j","k","l","m",
               "n","o","p","q","r","s","t","u","v","w","x","y","z">>

lowerChar(c) ==
    IF \E i \in 1..Len(UpperCase) : UpperCase[i] = c
    THEN LowerCase[CHOOSE i \in 1..Len(UpperCase) : UpperCase[i] = c]
    ELSE c

RECURSIVE toLowerCase(_)
toLowerCase(text) ==
    IF Len(text) = 0 THEN ""
    ELSE IF Len(text) = 1 THEN lowerChar(text)
    ELSE LET h == Len(text) \div 2
         IN toLowerCase(SubSeq(text, 1, h)) \o toLowerCase(SubSeq(text, h + 1, Len(text)))

----------------------------------------------------------------------------
\* Literals of the source.

MASTER_PROMPT == "ZERO rules"

NewSessionName == "New Session"

ErrorSessionId == "error_session"

InitErrorText == "Error: Could not initialize the ZERO Engine."

TurnErrorText == "[Error]\nAn unexpected error occurred."

TranslateErrorText == "Error: Translation failed."

DraftTag == "[Draft]"

FinalTag == "[Final Output]"

MetaTag == "[META-QUESTION DETECTED]"

\* The alternatives of the isMetaQuestion regular expression (flag i).
MetaPhrases ==
    { "what is this app", "explain your code", "how do you work", "your purpose",
      "your features", "your source code", "who are you", "what are you",
      "self check", "analyze your code", "improve the app", "make it better" }

----------------------------------------------------------------------------
\* Texts of source files are sequences of character codes.

\* The printable ASCII characters below the backtick (codes 32 to 95) and
\* above it (codes 97 to 126).
PrintableLow == " !\"#$%&'()*+,-./0123456789:;<=>?@ABCDEFGHIJKLMNOPQRSTUVWXYZ[\\]^_"

PrintableHigh == "abcdefghijklmnopqrstuvwxyz{|}~"

\* The code of an ASCII character.
charCodeAt(c) ==
    IF c = "\n" THEN 10
    ELSE IF \E i \in 1..Len(PrintableLow) : SubSeq(PrintableLow, i, i) = c
    THEN 31 + CHOOSE i \in 1..Len(PrintableLow) : SubSeq(PrintableLow, i, i) = c
    ELSE 96 + CHOOSE i \in 1..Len(PrintableHigh) : SubSeq(PrintableHigh, i, i) = c

\* The codes of the characters of a text.
codes(str) == [i \in 1..Len(str) |-> charCodeAt(SubSeq(str, i, i))]

\* The backtick.
Backtick == << 96 >>

\* What the redaction pattern starts with, and what ends its lazy match: the
\* first revision's pattern ends in backtick and semicolon, the second's in
\* the backtick.
PromptOpening == codes("const MASTER_PROMPT = ") \o Backtick

promptClosing(r) == IF r = 1 THEN Backtick \o codes(";") ELSE Backtick

\* The replacement of the redaction.
RedactedPrompt == codes("const MASTER_PROMPT = \"[REDACTED FOR SELF-ANALYSIS]\";")

----------------------------------------------------------------------------
\* Inputs.

\* Texts of index.tsx: the declaration of MASTER_PROMPT between other code.
\* The prompt of the first is plain text, that of the second quotes a file
\* name between escaped backticks (as the prompt of the application does), that
\* of the third has an escaped backtick before a semicolon.
SourceHead == codes("import React;\n")

SourceTail == codes("\nrender(App);")

PlainSecret == codes("Obey every ZERO law")

QuotingSecret == codes("Cite \\") \o Backtick \o codes("index.tsx\\") \o Backtick \o codes(" often")

SemicolonSecret == codes("Write \\") \o Backtick \o codes("; after a call")

Secrets == { PlainSecret, QuotingSecret, SemicolonSecret }

sourceOf(secret) ==
    SourceHead \o PromptOpening \o secret \o Backtick \o codes(";") \o SourceTail

SourceTexts == { sourceOf(secret) : secret \in Secrets }

\* The text the application serves as its own index.tsx.
IndexTsx == sourceOf(QuotingSecret)

\* What the model answers to MASTER_PROMPT (response.text).
SeedReply == "[Ready]"

\* What the user submits: userInput or critique (text), an attachment or
\* none (att), isChainMode (chain) and standingConstraints (cons).  A task
\* with an attachment, and blank text without one.
Submissions ==
    { [text |-> "Sum 2+2", att |-> TRUE, chain |-> FALSE, cons |-> <<"Be formal">>],
      [text |-> " ", att |-> FALSE, chain |-> TRUE, cons |-> <<>>] }

\* A task of more than NameLimit characters.
LongTask == "Plan a week of dinners for two adults who do not eat fish"

\* What the user submits where the stage decision and the name are at stake:
\* a long task, a task in chain mode, a meta question, a task that quotes the
\* marker of the meta prompt, and an attachment without text.
StageSubmissions ==
    { [text |-> LongTask, att |-> FALSE, chain |-> FALSE, cons |-> <<>>],
      [text |-> "Sum 2+2", att |-> FALSE, chain |-> TRUE, cons |-> <<>>],
      [text |-> "Who are you?", att |-> FALSE, chain |-> FALSE, cons |-> <<>>],
      [text |-> "Explain [META-QUESTION DETECTED]", att |-> FALSE, chain |-> FALSE,
       cons |-> <<>>],
      [text |-> "", att |-> TRUE, chain |-> FALSE, cons |-> <<>>] }

\* What the user submits where the redaction is at stake: a question about
\* the application and a task.
RedactSubmissions ==
    { [text |-> "Explain your code", att |-> FALSE, chain |-> FALSE, cons |-> <<>>],
      [text |-> "Sum 2+2", att |-> FALSE, chain |-> FALSE, cons |-> <<>>] }

\* The chunks of a stream: chunk.text and the grounding citations it carries.
Chunks ==
    { [text |-> DraftTag, web |-> None],
      [text |-> FinalTag, web |-> Some(<<[uri |-> "u", title |-> "t"]>>)] }

\* A response in chain mode, as the chunks of its stream: task, constraints,
\* an analysis, a note whose title holds 'Refined Answer' behind other words,
\* and five refined answers.
ChainStream ==
    << "[Task] t", "\n\n[Constraints] c", "\n\n[STANDING CONSTRAINTS] s",
       "\n\n[Analysis] a", "\n\n[Note on Refined Answer] n",
       "\n\n[Refined Answer 1/5] r1", "\n\n[Refined Answer 2/5] r2",
       "\n\n[Refined Answer 3/5] r3", "\n\n[Refined Answer 4/5] r4",
       "\n\n[Refined Answer 5/5] r5" >>

\* The responses the model streams where the parser is at stake: white space
\* only, text with a tag that arrives late and in two chunks, a draft with
\* its final output, and the response in chain mode.
ParseStreams ==
    { << " " >>,
      << "Hello", " [Dra", "ft] x" >>,
      << "[Draft] d", "\n\n[Final Output] f" >>,
      ChainStream }

\* fullResponseText after the first n chunks of a stream.
RECURSIVE received(_, _)
received(stream, n) == IF n = 0 THEN "" ELSE received(stream, n - 1) \o stream[n]

\* What the user submits where the session of a turn is at stake.
FrameSubmissions ==
    { [text |-> "Sum 2+2", att |-> FALSE, chain |-> FALSE, cons |-> <<>>] }

\* What the user submits where the parser is at stake.
ParseSubmissions ==
    { [text |-> "Sum 2+2", att |-> FALSE, chain |-> FALSE, cons |-> <<>>],
      [text |-> "Sum 2+2", att |-> FALSE, chain |-> TRUE, cons |-> <<>>] }

\* Names typed into the rename field of SessionsModal.
RenameInputs == { " Plan B ", " " }

\* Names typed where the automatic rename is at stake: the default name too.
StageRenameInputs == { " Plan B ", NewSessionName }

Languages == { "French" }

\* The languages picked where requests for one message overlap.
TranslateLanguages == { "French", "German" }

\* response.text of the translation call.
TranslationReply == "Bonjour"

----------------------------------------------------------------------------
\* parseResponse

\* The first "]" at or after p, 0 when none.
closingAt(text, p) ==
    IF \E q \in p..Len(text) : SubSeq(text, q, q) = "]"
    THEN CHOOSE q \in p..Len(text) :
            /\ SubSeq(text, q, q) = "]"
            /\ \A x \in p..(q - 1) : SubSeq(text, x, x) # "]"
    ELSE 0

\* text.match(/\[.*?\]/): a "[" with a "]" after it on the same line.
sameLineClosing(text, p) ==
    \E q \in p..Len(text) :
        /\ SubSeq(text, q, q) = "]"
        /\ \A x \in p..(q - 1) : SubSeq(text, x, x) # "\n"

hasTag(text) ==
    \E i \in 1..Len(text) : SubSeq(text, i, i) = "[" /\ sameLineClosing(text, i + 1)

\* A "[" at i with a "]" behind at least one other character.
opensTitle(text, i) == SubSeq(text, i, i) = "[" /\ closingAt(text, i + 1) > i + 1

\* \[([^\]]+)\]: the first such "[" at or after from, 0 when none.
titleStart(text, from) ==
    IF \E i \in from..Len(text) : opensTitle(text, i)
    THEN CHOOSE i \in from..Len(text) :
            opensTitle(text, i) /\ \A x \in from..(i - 1) : ~opensTitle(text, x)
    ELSE 0

\* \s*: the first place at or after p that holds no white space.
skipSpace(text, p) ==
    IF \E q \in p..Len(text) : ~IsSpace(SubSeq(text, q, q))
    THEN CHOOSE q \in p..Len(text) :
            /\ ~IsSpace(SubSeq(text, q, q))
            /\ \A x \in p..(q - 1) : IsSpace(SubSeq(text, x, x))
    ELSE IF p > Len(text) THEN p ELSE Len(text) + 1

\* A blank line and "[" follow at q.
blockAhead(text, q) == q + 2 <= Len(text) /\ SubSeq(text, q, q + 2) = "\n\n["

\* ([\s\S]*?)(?=\n\n\[|$): the first place at or after p where a blank line
\* and "[" follow, or the place behind the text.
contentEnd(text, p) ==
    IF \E q \in p..Len(text) : blockAhead(text, q)
    THEN CHOOSE q \in p..Len(text) :
            blockAhead(text, q) /\ \A x \in p..(q - 1) : ~blockAhead(text, x)
    ELSE IF p > Len(text) THEN p ELSE Len(text) + 1

\* while ((match = regex.exec(text)) !== null) sections.push(...): the matches
\* from lastIndex on, each with title and content trimmed.
RECURSIVE execAll(_, _)
execAll(text, from) ==
    IF titleStart(text, from) = 0 THEN << >>
    ELSE LET i == titleStart(text, from)
             j == closingAt(text, i + 1)
             k == skipSpace(text, j + 1)
             e == contentEnd(text, k)
         IN << [ title |-> trim(SubSeq(text, i + 1, j - 1)),
                 content |-> trim(SubSeq(text, k, e - 1)) ] >> \o execAll(text, e)

\* String.prototype.startsWith
startsWith(text, pat) == Len(text) >= Len(pat) /\ SubSeq(text, 1, Len(pat)) = pat

RefinedTitle == "Refined Answer"

ConstraintTitles == { "Constraints", "STANDING CONSTRAINTS" }

\* sections.forEach(...) over chainData.
RECURSIVE chainData(_, _)
chainData(sections, acc) ==
    IF sections = << >> THEN acc
    ELSE LET sec == Head(sections)
         IN chainData(Tail(sections),
                IF sec.title = "Task" THEN [acc EXCEPT !.task = Some(sec)]
                ELSE IF sec.title \in ConstraintTitles
                THEN IF acc.constraints # None
                     THEN [acc EXCEPT !.constraints[1].content =
                              @ \o "\n\n" \o "**" \o sec.title \o "**\n" \o sec.content]
                     ELSE [acc EXCEPT !.constraints =
                              Some([title |-> "Constraints", content |-> sec.content])]
                ELSE IF startsWith(sec.title, RefinedTitle)
                THEN [acc EXCEPT !.refinedAnswers = Append(@, sec)]
                ELSE acc)

\* The sections of the text: the whole text under 'Response' when it holds no
\* tag and is not blank.
sectionsOf(text) ==
    IF ~hasTag(text) /\ trim(text) # "" THEN << [title |-> "Response", content |-> text] >>
    ELSE IF execAll(text, 1) = << >> /\ trim(text) # ""
    THEN << [title |-> "Response", content |-> text] >>
    ELSE execAll(text, 1)

\* A parser that takes a title that mentions 'Refined Answer' anywhere for
\* the sign of chain mode.
parseResponseByMention(r, text) ==
    IF r = 2 THEN sectionsOf(text)
    ELSE IF \E i \in 1..Len(sectionsOf(text)) : includes(sectionsOf(text)[i].title, RefinedTitle)
    THEN [ isChainMode |-> TRUE,
           data |-> chainData(sectionsOf(text),
                              [task |-> None, constraints |-> None, refinedAnswers |-> << >>]) ]
    ELSE [ isChainMode |-> FALSE, data |-> sectionsOf(text) ]

\* parseResponse: a ParsedResponse in the first revision, Section[] in the
\* second.
parseResponse(r, text) ==
    IF r = 2 THEN sectionsOf(text)
    ELSE IF \E i \in 1..Len(sectionsOf(text)) : startsWith(sectionsOf(text)[i].title, RefinedTitle)
    THEN [ isChainMode |-> TRUE,
           data |-> chainData(sectionsOf(text),
                              [task |-> None, constraints |-> None, refinedAnswers |-> << >>]) ]
    ELSE [ isChainMode |-> FALSE, data |-> sectionsOf(text) ]

----------------------------------------------------------------------------
\* Types Message and Session.

Msg(id, author, content, citations, attachment) ==
    [ id |-> id, author |-> author, content |-> content, citations |-> citations,
      translation |-> None, isTranslating |-> None, attachment |-> attachment,
      parsedData |-> None ]

\* The Session createNewSession builds from the model's reply at time t.
\* uid is not a field of the source: it tells apart session objects whose
\* ids are equal.
newSession(r, reply, t, uid) ==
    [ id |-> "session_" \o ToString(t),
      name |-> NewSessionName,
      messages |-> << [Msg(1, "ai", reply, None, None) EXCEPT
                           !.parsedData = Some(parseResponse(r, reply))] >>,
      chatHistory |-> << [role |-> "user", parts |-> <<MASTER_PROMPT>>],
                         [role |-> "model", parts |-> <<reply>>] >>,
      createdAt |-> t,
      uid |-> uid ]

\* The synthetic session of the catch block of initApp.
errorSession(t) ==
    [ id |-> ErrorSessionId,
      name |-> "Error",
      messages |-> << Msg(1, "ai", InitErrorText, None, None) >>,
      chatHistory |-> <<>>,
      createdAt |-> t,
      uid |-> 0 ]

Ids(ss) == { ss[i].id : i \in 1..Len(ss) }

\* Array.prototype.findIndex(s => s.id === id), 0 for -1.
findIndex(ss, id) ==
    IF \E i \in 1..Len(ss) : ss[i].id = id
    THEN CHOOSE i \in 1..Len(ss) : ss[i].id = id /\ \A j \in 1..(i - 1) : ss[j].id # id
    ELSE 0

\* sessions.find(s => s.id === activeSessionId), None for undefined.
activeSessionOf(ss, id) ==
    IF findIndex(ss, id) = 0 THEN None ELSE Some(ss[findIndex(ss, id)])

\* sessions.sort((a, b) => b.createdAt - a.createdAt): descending and stable.
\* The place of ss[i] after the sort: behind every newer session and behind
\* the sessions of its age that stood before it.
placeByCreatedAt(ss, i) ==
    1 + Cardinality({ j \in 1..Len(ss) :
                        \/ ss[j].createdAt > ss[i].createdAt
                        \/ ss[j].createdAt = ss[i].createdAt /\ j < i })

sortByCreatedAt(ss) ==
    [p \in 1..Len(ss) |-> ss[CHOOSE i \in 1..Len(ss) : placeByCreatedAt(ss, i) = p]]

\* A SessionsModal that sorts a copy, [...sessions].sort(...), leaves the state
\* array as it is.
renderedCopy(ss, modalOpen) == ss

\* What the render leaves in the sessions array: SessionsModal, when open,
\* sorts the array it is given, which is the state array itself.
rendered(ss, modalOpen) == IF modalOpen THEN sortByCreatedAt(ss) ELSE ss

----------------------------------------------------------------------------
\* localStorage: the two keys, each None (getItem gives null) or Some(value).
\* A value of zero_sessions is a text that JSON.parse accepts (ok) or not.

stringifyMessage(m) ==
    << m.id, m.author, m.content, m.citations, m.translation, m.isTranslating,
       m.attachment, m.parsedData >>

parseMessage(t) ==
    [ id |-> t[1], author |-> t[2], content |-> t[3], citations |-> t[4],
      translation |-> t[5], isTranslating |-> t[6], attachment |-> t[7],
      parsedData |-> t[8] ]

stringifySession(s) ==
    << s.id, s.name, [i \in 1..Len(s.messages) |-> stringifyMessage(s.messages[i])],
       s.chatHistory, s.createdAt, s.uid >>

parseSession(t) ==
    [ id |-> t[1], name |-> t[2],
      messages |-> [i \in 1..Len(t[3]) |-> parseMessage(t[3][i])],
      chatHistory |-> t[4], createdAt |-> t[5], uid |-> t[6] ]

\* JSON.stringify(sessions)
stringify(ss) == [ok |-> TRUE, doc |-> [i \in 1..Len(ss) |-> stringifySession(ss[i])]]

\* JSON.parse(text), defined when text.ok
parse(text) == [i \in 1..Len(text.doc) |-> parseSession(text.doc[i])]

CorruptText == [ok |-> FALSE, doc |-> <<>>]

EmptyStorage == [zero_sessions |-> None, zero_active_session_id |-> None]

\* A delete of the last session that reloads without removeItem.
keepItems(st) == st

\* localStorage.removeItem of both keys.
removeItems(st) == EmptyStorage

\* The save effect, run after a render in which sessions or activeSessionId
\* changed.  The second revision also removes the keys of an empty collection.
saveEffect(r, ss, aid, st) ==
    IF Len(ss) > 0 /\ aid # ""
    THEN [zero_sessions |-> Some(stringify(ss)), zero_active_session_id |-> Some(aid)]
    ELSE IF r = 2 /\ Len(ss) = 0 THEN removeItems(st)
    ELSE st

\* The rehydration effect: a chat is created from the active session's
\* chatHistory whenever ai and the active session are there.
rehydrate(aiNow, ss, aid, old) ==
    IF aiNow /\ activeSessionOf(ss, aid) # None
    THEN Some([history |-> activeSessionOf(ss, aid)[1].chatHistory])
    ELSE old

----------------------------------------------------------------------------
\* Pure parts of handleSendMessage.

\* isMetaQuestion: stage === 'awaiting_task' && /...|.../i.test(text)
isMetaQuestion(stg, text) ==
    stg = "awaiting_task" /\ \E p \in MetaPhrases : includes(toLowerCase(text), p)

\* standingConstraints.map(c => `- ${c}`).join('\n')
RECURSIVE joinConstraints(_)
joinConstraints(cons) ==
    IF cons = <<>> THEN ""
    ELSE IF Len(cons) = 1 THEN "- " \o cons[1]
    ELSE "- " \o cons[1] \o "\n" \o joinConstraints(Tail(cons))

\* The first place at or after from where pat stands in text, 0 when none.
indexOf(text, pat, from) ==
    IF \E i \in from..(Len(text) - Len(pat) + 1) : SubSeq(text, i, i + Len(pat) - 1) = pat
    THEN CHOOSE i \in from..(Len(text) - Len(pat) + 1) :
            /\ SubSeq(text, i, i + Len(pat) - 1) = pat
            /\ \A j \in from..(i - 1) : SubSeq(text, j, j + Len(pat) - 1) # pat
    ELSE 0

\* text.replace(/const MASTER_PROMPT = `[\s\S]*?`;/, RedactedPrompt) and the
\* second revision's pattern: the first match, from the first opening that is
\* followed by a closing to the first closing after it, is replaced.
redact(r, text) ==
    LET i == indexOf(text, PromptOpening, 1)
        j == IF i = 0 THEN 0 ELSE indexOf(text, promptClosing(r), i + Len(PromptOpening))
    IN IF j = 0 THEN text
       ELSE SubSeq(text, 1, i - 1) \o RedactedPrompt
               \o SubSeq(text, j + Len(promptClosing(r)), Len(text))

\* unescape(encodeURIComponent(content)): the UTF-8 bytes of the text, one
\* for a code below 128 and two for a code below 2048.
RECURSIVE utf8(_)
utf8(text) ==
    IF Len(text) = 0 THEN << >>
    ELSE IF Len(text) = 1
    THEN (IF text[1] < 128 THEN << text[1] >>
          ELSE << 192 + (text[1] \div 64), 128 + (text[1] % 64) >>)
    ELSE LET h == Len(text) \div 2
         IN utf8(SubSeq(text, 1, h)) \o utf8(SubSeq(text, h + 1, Len(text)))

Base64Alphabet == "ABCDEFGHIJKLMNOPQRSTUVWXYZabcdefghijklmnopqrstuvwxyz0123456789+/"

base64Char(n) == SubSeq(Base64Alphabet, n + 1, n + 1)

\* btoa of a byte sequence: three bytes give four characters, the last group
\* is padded with "=".
RECURSIVE btoa(_)
btoa(bytes) ==
    IF Len(bytes) = 0 THEN ""
    ELSE IF Len(bytes) = 1
    THEN base64Char(bytes[1] \div 4) \o base64Char((bytes[1] % 4) * 16) \o "=="
    ELSE IF Len(bytes) = 2
    THEN base64Char(bytes[1] \div 4)
            \o base64Char((bytes[1] % 4) * 16 + (bytes[2] \div 16))
            \o base64Char((bytes[2] % 16) * 4) \o "="
    ELSE IF Len(bytes) = 3
    THEN base64Char(bytes[1] \div 4)
            \o base64Char((bytes[1] % 4) * 16 + (bytes[2] \div 16))
            \o base64Char((bytes[2] % 16) * 4 + (bytes[3] \div 64))
            \o base64Char(bytes[3] % 64)
    ELSE LET h == 3 * ((((Len(bytes) - 1) \div 3) + 1) \div 2)
         IN btoa(SubSeq(bytes, 1, h)) \o btoa(SubSeq(bytes, h + 1, Len(bytes)))

FileLabel == "[FILE: index.tsx]\n"

\* encodedCodeContext: the redacted index.tsx, Base64 encoded under its file
\* name (the other files, which the redaction leaves alone, are left out).
encodedCodeContext(r, src) == FileLabel \o btoa(utf8(redact(r, src)))

MetaPromptHead ==
    MetaTag \o " I will now operate under the SELF-AWARENESS PROTOCOL.\n\n"
            \o "Here are my Base64 encoded source files for analysis. "
            \o "You must decode them before answering my question.\n\n"

MetaPromptTail == "\n\nBased on the decoded source code, answer my question: "

metaPrompt(r, src, text) ==
    MetaPromptHead \o encodedCodeContext(r, src) \o MetaPromptTail \o text

\* finalPromptToServer.  src is sourceCode: None for null.
constructPrompt(r, src, stg, text, chain, cons) ==
    IF isMetaQuestion(stg, text) /\ src # None THEN metaPrompt(r, src[1], text)
    ELSE IF stg = "awaiting_critique" THEN text
    ELSE IF r = 1
         THEN (IF Len(cons) > 0
               THEN "[STANDING CONSTRAINTS]\n" \o joinConstraints(cons) \o "\n\n"
               ELSE "")
              \o (IF chain THEN "[MODE: CHAIN]\n" ELSE "[MODE: NORMAL]\n") \o text
         ELSE "[Task]\n" \o text \o "\n\n"
              \o (IF Len(cons) > 0
                  THEN "[Constraints]\n" \o joinConstraints(cons)
                  ELSE "[Constraints]\nNone.")

\* Guards that test isLoading, chat and activeSession but not the stage.
submissionAcceptedByLoading(loading, chatNow, active, stg, text, att) ==
    /\ ~loading
    /\ chatNow # None
    /\ active # None
    /\ ~(trim(text) = "" /\ ~att)

\* The guards of handleSendMessage: the submission goes on when this holds.
submissionAccepted(loading, chatNow, active, stg, text, att) ==
    /\ ~loading
    /\ chatNow # None
    /\ active # None
    /\ stg \in {"awaiting_task", "awaiting_critique"}
    /\ ~(trim(text) = "" /\ ~att)

\* A stage decision that sets a stage only when it finds one of the tags.
stageAfterTagged(r, turn) ==
    IF includes(turn.text, DraftTag) /\ ~includes(turn.text, FinalTag)
    THEN "awaiting_critique"
    ELSE IF includes(turn.text, FinalTag) THEN "awaiting_task"
    ELSE "processing"

\* A stage decision that does not look at isChainMode.
stageAfterAnyMode(r, turn) ==
    IF turn.meta THEN "awaiting_task"
    ELSE IF includes(turn.text, DraftTag) /\ ~includes(turn.text, FinalTag)
         THEN "awaiting_critique"
         ELSE "awaiting_task"

\* The stage set when the stream has ended.
stageAfter(r, turn) ==
    IF r = 1
    THEN IF turn.meta THEN "awaiting_task"
         ELSE IF ~turn.chain /\ includes(turn.text, DraftTag)
                             /\ ~includes(turn.text, FinalTag)
              THEN "awaiting_critique"
              ELSE "awaiting_task"
    ELSE IF includes(turn.prompt, MetaTag) THEN "awaiting_task"
         ELSE IF includes(turn.text, DraftTag) /\ ~includes(turn.text, FinalTag)
              THEN "awaiting_critique"
              ELSE "awaiting_task"

\* The places of the sessions an update by id replaces: prev.map(s => s.id ===
\* id ? ... : s) in the first revision replaces every session of that id,
\* updateSessionMessages in the second the one findIndex gives (none for -1).
updatedPlaces(r, ss, id) ==
    IF r = 1 THEN { i \in 1..Len(ss) : ss[i].id = id }
    ELSE { i \in 1..Len(ss) : i = findIndex(ss, id) }

\* The array after the update: upd[i] is the replacement of ss[i].
updateSession(r, ss, id, upd) ==
    [i \in 1..Len(ss) |-> IF i \in updatedPlaces(r, ss, id) THEN upd[i] ELSE ss[i]]

\* Whether the update hands React a new array (the second revision returns
\* prev when the session is not found).
newArray(r, ss, id) == r = 1 \/ findIndex(ss, id) # 0

\* [...messages, userMessage, aiMessagePlaceholder]
appendTurn(s, text, att, t) ==
    [s EXCEPT !.messages = @ \o
        << Msg(t, "user", text, None, IF att THEN Some("file.png") ELSE None),
           Msg(t + 1, "ai", "", Some(<<>>), None) >>]

\* The update of one chunk: the first revision writes the last message when
\* its author is 'ai', the second when its id is the placeholder's.
streamInto(r, s, turn, text, cites) ==
    IF Len(s.messages) > 0
       /\ (IF r = 1 THEN s.messages[Len(s.messages)].author = "ai"
                    ELSE s.messages[Len(s.messages)].id = turn.placeholderId)
    THEN [s EXCEPT !.messages[Len(s.messages)].content = text,
                   !.messages[Len(s.messages)].citations = Some(cites),
                   !.messages[Len(s.messages)].parsedData = Some(parseResponse(r, text))]
    ELSE s

\* A catch block that also records the failed exchange in chatHistory.
failIntoRecorded(r, s, turn) ==
    [s EXCEPT !.messages[Len(s.messages)].content = TurnErrorText,
              !.chatHistory = @ \o << [role |-> "user", parts |-> turn.parts],
                                      [role |-> "model", parts |-> <<TurnErrorText>>] >>]

\* The update of the catch block.
failInto(r, s, turn) ==
    IF Len(s.messages) > 0
       /\ (IF r = 1 THEN s.messages[Len(s.messages)].author = "ai"
                    ELSE s.messages[Len(s.messages)].id = turn.placeholderId)
    THEN [s EXCEPT !.messages[Len(s.messages)].content = TurnErrorText]
    ELSE s

userCount(s) == Cardinality({i \in 1..Len(s.messages) : s.messages[i].author = "user"})

\* A completion that appends the user's entry to chatHistory but not the model's.
completeIntoUserOnly(s, turn) ==
    [s EXCEPT !.chatHistory = @ \o << [role |-> "user", parts |-> turn.parts] >>]

\* The update after the stream: auto-rename and the chatHistory append.
completeInto(s, turn) ==
    [s EXCEPT
        !.name = IF userCount(s) = 1 /\ s.name = NewSessionName
                 THEN substring(turn.userText, NameLimit) ELSE @,
        !.chatHistory = @ \o << [role |-> "user", parts |-> turn.parts],
                                [role |-> "model", parts |-> <<turn.text>>] >>]

\* The updates of handleTranslate.
setTranslating(s, mid) ==
    [s EXCEPT !.messages = [i \in 1..Len(@) |->
        IF @[i].id = mid THEN [@[i] EXCEPT !.isTranslating = Some(TRUE)] ELSE @[i]]]

setTranslation(s, mid, lang, content) ==
    [s EXCEPT !.messages = [i \in 1..Len(@) |->
        IF @[i].id = mid
        THEN [@[i] EXCEPT !.isTranslating = Some(FALSE),
                          !.translation = Some([lang |-> lang, content |-> content])]
        ELSE @[i]]]

\* handleDeleteSession: prev.filter(s => s.id !== sessionId)
remainingAfter(ss, id) == SelectSeq(ss, LAMBDA s : s.id # id)

\* The active session after a delete that leaves sessions behind.
activeAfterDelete(ss, aid, id) ==
    IF id = aid THEN remainingAfter(ss, id)[1].id ELSE aid

----------------------------------------------------------------------------
\* A record an earlier run of the application saved: an older session with
\* one completed turn (an attachment, a translation) and a newer, fresh one,
\* in the order of their creation, the newer one active.

PriorTurn ==
    [ userText |-> "Sum 2+2", parts |-> <<"[MODE: NORMAL]\nSum 2+2", "inlineData">>,
      text |-> "[Final Output]", placeholderId |-> ClockStart - 1 ]

PriorOld(r) ==
    setTranslation(
        completeInto(
            streamInto(r, appendTurn(newSession(r, SeedReply, ClockStart - 2, 0 - 2),
                                     "Sum 2+2", TRUE, ClockStart - 2),
                       PriorTurn, "[Final Output]", <<>>),
            PriorTurn),
        ClockStart - 1, "French", TranslationReply)

PriorNew(r) == newSession(r, SeedReply, ClockStart - 1, 0 - 1)

PriorStorage(r) ==
    [ zero_sessions |-> Some(stringify(<<PriorOld(r), PriorNew(r)>>)),
      zero_active_session_id |-> Some(PriorNew(r).id) ]

CorruptStorage ==
    [ zero_sessions |-> Some(CorruptText),
      zero_active_session_id |-> Some("session_" \o ToString(ClockStart - 1)) ]

InitialStorages(r) == { EmptyStorage, CorruptStorage, PriorStorage(r) }

\* What the startup finds in localStorage.
recordKind(st) ==
    IF st.zero_sessions = None \/ st.zero_active_session_id = None THEN "missing"
    ELSE IF ~st.zero_sessions[1].ok THEN "corrupt"
    ELSE "valid"

----------------------------------------------------------------------------
VARIABLES
    rev,                  \* the App revision that runs: 1 or 2
    sourceCode,           \* useState<Record<string, string> | null>: index.tsx
    now,                  \* Date.now()
    storage,              \* localStorage
    sessions,             \* useState<Session[]>
    activeSessionId,      \* useState<string>
    stage,                \* useState<Stage>
    isLoading,            \* useState<boolean>
    ai,                   \* useState<GoogleGenAI | null>: TRUE when set
    chat,                 \* useState<Chat | null>
    isSessionsModalOpen,  \* useState<boolean>
    initPc,               \* where initApp stands: "fetch", "create", "done"
    pendingNew,           \* handleNewSession calls awaiting createNewSession
    turns,                \* handleSendMessage calls awaiting their stream
    translating,          \* handleTranslate calls awaiting generateContent
    nextUid,              \* number of the next session object (not in the source)
    nOps,                 \* operations the user has started (not in the source)
    lastOp,               \* the handler that took the last step (not in the source)
    boot,                 \* this startup: the record it found (record, saved), how it
                          \* ended (outcome), the reloads and the user's operations
                          \* before it (not in the source)
    wiped                 \* uids of created sessions removed by deleting the last one

vars ==
    << rev, sourceCode, now, storage, sessions, activeSessionId, stage, isLoading, ai, chat,
       isSessionsModalOpen, initPc, pendingNew, turns, translating, nextUid,
       nOps, lastOp, boot, wiped >>

\* The state of the component: everything a handler can change.
appState ==
    << sourceCode, storage, sessions, activeSessionId, stage, isLoading, ai, chat,
       isSessionsModalOpen, initPc, pendingNew, turns, translating >>

\* The first render of App and its effects.  The save effect runs with an
\* empty collection; initApp starts and awaits the source files.
mountStorage(r, st) == saveEffect(r, <<>>, "", st)

Init ==
    /\ rev \in {1, 2}
    /\ now = ClockStart
    /\ sourceCode = None
    /\ \E st \in InitialStorages(rev) :
          /\ storage = mountStorage(rev, st)
          /\ boot = [record |-> recordKind(st), saved |-> st, outcome |-> "pending",
                     reloads |-> 0, ops |-> 0]
    /\ sessions = <<>>
    /\ activeSessionId = ""
    /\ stage = "initializing"
    /\ isLoading = TRUE
    /\ ai = FALSE
    /\ chat = None
    /\ isSessionsModalOpen = FALSE
    /\ initPc = "fetch"
    /\ pendingNew = 0
    /\ turns = <<>>
    /\ translating = <<>>
    /\ nextUid = 1
    /\ nOps = 0
    /\ lastOp = "mount"
    /\ wiped = {}

\* The render after a handler set sessions to ss (setS: through a new array),
\* activeSessionId to aid, the modal flag to modal and ai to aiNow, and the
\* effects after it.
Commit(ss, aid, modal, aiNow, setS) ==
    /\ sessions' = rendered(ss, modal)
    /\ activeSessionId' = aid
    /\ isSessionsModalOpen' = modal
    /\ ai' = aiNow
    /\ storage' = IF setS \/ aid # activeSessionId
                  THEN saveEffect(rev, rendered(ss, modal), aid, storage)
                  ELSE storage
    /\ chat' = rehydrate(aiNow, rendered(ss, modal), aid, chat)

Tick ==
    /\ now' = now + 1
    /\ lastOp' = "tick"
    /\ UNCHANGED << rev, appState, nextUid, nOps, boot, wiped >>

----------------------------------------------------------------------------
\* initApp

\* The catch block of initApp.
InitError(aiNow, why) ==
    /\ Commit(<<errorSession(now)>>, ErrorSessionId, isSessionsModalOpen, aiNow, TRUE)
    /\ stage' = "error"
    /\ isLoading' = FALSE
    /\ initPc' = "done"
    /\ boot' = [boot EXCEPT !.outcome = why]
    /\ UNCHANGED << rev, now, pendingNew, turns, translating, nextUid, nOps, wiped >>

\* The source files are fetched and the client is built; the stored record
\* is read.  The first revision parses it inside the try block of initApp,
\* the second inside loadSessions, which removes an unparseable record.
\* src is the text of index.tsx that was fetched.
InitFetched(src) ==
    /\ initPc = "fetch"
    /\ lastOp' = "initApp.fetched"
    /\ sourceCode' = Some(src)
    /\ IF storage.zero_sessions # None /\ storage.zero_active_session_id # None
       THEN IF storage.zero_sessions[1].ok
            THEN /\ Commit(parse(storage.zero_sessions[1]),
                           storage.zero_active_session_id[1],
                           isSessionsModalOpen, TRUE, TRUE)
                 /\ stage' = "awaiting_task"
                 /\ isLoading' = FALSE
                 /\ initPc' = "done"
                 /\ boot' = [boot EXCEPT !.outcome = "loaded"]
                 /\ UNCHANGED << rev, now, pendingNew, turns, translating, nextUid,
                                 nOps, wiped >>
            ELSE IF rev = 1
                 THEN InitError(TRUE, "parse")
                 ELSE /\ storage' = removeItems(storage)
                      /\ ai' = TRUE
                      /\ initPc' = "create"
                      /\ UNCHANGED << rev, now, sessions, activeSessionId, stage,
                                      isLoading, chat, isSessionsModalOpen, pendingNew,
                                      turns, translating, nextUid, nOps, boot, wiped >>
       ELSE /\ ai' = TRUE
            /\ initPc' = "create"
            /\ UNCHANGED << rev, now, storage, sessions, activeSessionId, stage,
                            isLoading, chat, isSessionsModalOpen, pendingNew, turns,
                            translating, nextUid, nOps, boot, wiped >>

\* A fetch rejects (first revision: setSourceCode is not reached; fetchSourceCode
\* of the second catches it) or new GoogleGenAI throws: setAi is not reached.
InitFailed(src) ==
    /\ initPc = "fetch"
    /\ lastOp' = "initApp.failed"
    /\ sourceCode' \in (IF rev = 1 THEN {None, Some(src)} ELSE {Some(src)})
    /\ InitError(FALSE, "external")

\* createNewSession, called by initApp, resolves.
InitCreated ==
    /\ initPc = "create"
    /\ lastOp' = "initApp.created"
    /\ Commit(Append(sessions, newSession(rev, SeedReply, now, nextUid)),
              "session_" \o ToString(now), isSessionsModalOpen, ai, TRUE)
    /\ stage' = "awaiting_task"
    /\ isLoading' = FALSE
    /\ initPc' = "done"
    /\ nextUid' = nextUid + 1
    /\ boot' = [boot EXCEPT !.outcome = "created"]
    /\ UNCHANGED << rev, now, sourceCode, pendingNew, turns, translating, nOps, wiped >>

\* The model call of createNewSession, called by initApp, rejects.
InitCreateFailed ==
    /\ initPc = "create"
    /\ lastOp' = "initApp.createFailed"
    /\ InitError(ai, "external")
    /\ UNCHANGED sourceCode

----------------------------------------------------------------------------
\* The session manager.

OpenSessionsModal ==
    /\ ~isSessionsModalOpen
    /\ lastOp' = "openSessionsModal"
    /\ Commit(sessions, activeSessionId, TRUE, ai, FALSE)
    /\ UNCHANGED << rev, now, sourceCode, stage, isLoading, initPc, pendingNew, turns,
                    translating, nextUid, nOps, boot, wiped >>

CloseSessionsModal ==
    /\ isSessionsModalOpen
    /\ lastOp' = "closeSessionsModal"
    /\ Commit(sessions, activeSessionId, FALSE, ai, FALSE)
    /\ UNCHANGED << rev, now, sourceCode, stage, isLoading, initPc, pendingNew, turns,
                    translating, nextUid, nOps, boot, wiped >>

handleNewSession ==
    /\ isSessionsModalOpen
    /\ ai
    /\ lastOp' = "handleNewSession"
    /\ isLoading' = TRUE
    /\ pendingNew' = pendingNew + 1
    /\ nOps' = nOps + 1
    /\ UNCHANGED << rev, now, sourceCode, storage, sessions, activeSessionId, stage,
                    ai, chat,
                    isSessionsModalOpen, initPc, turns, translating, nextUid,
                    boot, wiped >>

\* createNewSession, called by handleNewSession, resolves.
NewSessionCreated ==
    /\ pendingNew > 0
    /\ lastOp' = "handleNewSession.created"
    /\ Commit(Append(sessions, newSession(rev, SeedReply, now, nextUid)),
              "session_" \o ToString(now), FALSE, ai, TRUE)
    /\ isLoading' = FALSE
    /\ pendingNew' = pendingNew - 1
    /\ nextUid' = nextUid + 1
    /\ UNCHANGED << rev, now, sourceCode, stage, initPc, turns, translating, nOps,
                    boot, wiped >>

\* The model call rejects: handleNewSession has no catch, nothing after the
\* await runs.
NewSessionFailed ==
    /\ pendingNew > 0
    /\ lastOp' = "handleNewSession.failed"
    /\ pendingNew' = pendingNew - 1
    /\ UNCHANGED << rev, now, sourceCode, storage, sessions, activeSessionId, stage,
                    isLoading,
                    ai, chat, isSessionsModalOpen, initPc, turns, translating,
                    nextUid, nOps, boot, wiped >>

handleLoadSession(id) ==
    /\ isSessionsModalOpen
    /\ id \in Ids(sessions)
    /\ lastOp' = "handleLoadSession"
    /\ Commit(sessions, id, FALSE, ai, FALSE)
    /\ nOps' = nOps + 1
    /\ UNCHANGED << rev, now, sourceCode, stage, isLoading, initPc, pendingNew, turns,
                    translating, nextUid, boot, wiped >>

\* window.location.reload(): the page starts again with what is stored.
Reload(st) ==
    /\ storage' = mountStorage(rev, st)
    /\ boot' = [record |-> recordKind(st), saved |-> st, outcome |-> "pending",
                reloads |-> boot.reloads + 1, ops |-> nOps + 1]
    /\ sourceCode' = None
    /\ sessions' = <<>>
    /\ activeSessionId' = ""
    /\ stage' = "initializing"
    /\ isLoading' = TRUE
    /\ ai' = FALSE
    /\ chat' = None
    /\ isSessionsModalOpen' = FALSE
    /\ initPc' = "fetch"
    /\ pendingNew' = 0
    /\ turns' = <<>>
    /\ translating' = <<>>

handleDeleteSession(id) ==
    /\ isSessionsModalOpen
    /\ id \in Ids(sessions)
    /\ lastOp' = IF id = activeSessionId THEN "handleDeleteSession.active"
                  ELSE "handleDeleteSession"
    /\ nOps' = nOps + 1
    /\ IF remainingAfter(sessions, id) = <<>>
       THEN /\ Reload(removeItems(storage))
            /\ wiped' = wiped \cup ({ sessions[i].uid : i \in 1..Len(sessions) } \ {0})
            /\ UNCHANGED << rev, now, nextUid >>
       ELSE /\ Commit(remainingAfter(sessions, id),
                      activeAfterDelete(sessions, activeSessionId, id),
                      TRUE, ai, TRUE)
            /\ UNCHANGED << rev, now, sourceCode, stage, isLoading, initPc,
                            pendingNew, turns,
                            translating, nextUid, boot, wiped >>

\* handleRenameSubmit of SessionsModal, then handleRenameSession.
handleRenameSession(id, typed) ==
    /\ isSessionsModalOpen
    /\ id \in Ids(sessions)
    /\ trim(typed) # ""
    /\ lastOp' = "handleRenameSession"
    /\ Commit([i \in 1..Len(sessions) |->
                  IF sessions[i].id = id THEN [sessions[i] EXCEPT !.name = trim(typed)]
                  ELSE sessions[i]],
              activeSessionId, TRUE, ai, TRUE)
    /\ nOps' = nOps + 1
    /\ UNCHANGED << rev, now, sourceCode, stage, isLoading, initPc, pendingNew, turns,
                    translating, nextUid, boot, wiped >>

----------------------------------------------------------------------------
\* handleSendMessage

\* The turn handleSendMessage starts: what its closure holds while it awaits.
\* isChainMode is state of the first revision only.
newTurn(r, src, stg, text, att, chain, cons, active, chatNow, t) ==
    [ sid |-> active.id,
      uid |-> active.uid,
      userText |-> text,
      prompt |-> constructPrompt(r, src, stg, text, chain, cons),
      parts |-> IF att THEN << constructPrompt(r, src, stg, text, chain, cons), "inlineData" >>
                ELSE << constructPrompt(r, src, stg, text, chain, cons) >>,
      meta |-> isMetaQuestion(stg, text),
      chain |-> r = 1 /\ chain,
      cons |-> cons,
      placeholderId |-> t + 1,
      chat |-> chatNow[1].history,
      text |-> "",
      citations |-> <<>>,
      chunks |-> 0,
      histBefore |-> active.chatHistory ]

handleSendMessage(text, att, chain, cons) ==
    /\ lastOp' = "handleSendMessage"
    /\ IF submissionAccepted(isLoading, chat, activeSessionOf(sessions, activeSessionId),
                             stage, text, att)
       THEN /\ isLoading' = TRUE
            /\ stage' = "processing"
            /\ Commit(updateSession(rev, sessions, activeSessionId,
                                    [i \in 1..Len(sessions) |->
                                        appendTurn(sessions[i], text, att, now)]),
                      activeSessionId, isSessionsModalOpen, ai, TRUE)
            /\ turns' = Append(turns,
                   newTurn(rev, sourceCode, stage, text, att, chain, cons,
                           activeSessionOf(sessions, activeSessionId)[1], chat, now))
            /\ nOps' = nOps + 1
            /\ UNCHANGED << rev, now, sourceCode, initPc, pendingNew, translating,
                            nextUid,
                            boot, wiped >>
       ELSE UNCHANGED << rev, now, sourceCode, appState, nextUid, nOps, boot, wiped >>

RemoveAt(q, k) == SubSeq(q, 1, k - 1) \o SubSeq(q, k + 1, Len(q))

\* One chunk of the stream of turn k arrives.
TurnChunk(k, c) ==
    /\ k \in 1..Len(turns)
    /\ lastOp' = "handleSendMessage.chunk"
    /\ LET text == turns[k].text \o c.text
           cites == IF c.web # None THEN c.web[1] ELSE turns[k].citations
       IN /\ turns' = [turns EXCEPT ![k].text = text, ![k].citations = cites,
                                    ![k].chunks = @ + 1]
          /\ Commit(updateSession(rev, sessions, turns[k].sid,
                                  [i \in 1..Len(sessions) |->
                                      streamInto(rev, sessions[i], turns[k], text, cites)]),
                    activeSessionId, isSessionsModalOpen, ai,
                    newArray(rev, sessions, turns[k].sid))
    /\ UNCHANGED << rev, now, sourceCode, stage, isLoading, initPc, pendingNew,
                    translating,
                    nextUid, nOps, boot, wiped >>

\* The stream of turn k ends.
TurnCompleted(k) ==
    /\ k \in 1..Len(turns)
    /\ lastOp' = "handleSendMessage.completed"
    /\ Commit(updateSession(rev, sessions, turns[k].sid,
                            [i \in 1..Len(sessions) |->
                                completeInto(sessions[i], turns[k])]),
              activeSessionId, isSessionsModalOpen, ai,
              newArray(rev, sessions, turns[k].sid))
    /\ stage' = stageAfter(rev, turns[k])
    /\ isLoading' = FALSE
    /\ turns' = RemoveAt(turns, k)
    /\ UNCHANGED << rev, now, sourceCode, initPc, pendingNew, translating, nextUid,
                    nOps,
                    boot, wiped >>

\* sendMessageStream rejects or the stream throws.
TurnFailed(k) ==
    /\ k \in 1..Len(turns)
    /\ lastOp' = "handleSendMessage.failed"
    /\ Commit(updateSession(rev, sessions, turns[k].sid,
                            [i \in 1..Len(sessions) |->
                                failInto(rev, sessions[i], turns[k])]),
              activeSessionId, isSessionsModalOpen, ai,
              newArray(rev, sessions, turns[k].sid))
    /\ stage' = "awaiting_task"
    /\ isLoading' = FALSE
    /\ turns' = RemoveAt(turns, k)
    /\ UNCHANGED << rev, now, sourceCode, initPc, pendingNew, translating, nextUid,
                    nOps,
                    boot, wiped >>

----------------------------------------------------------------------------
\* handleTranslate

\* The AI messages the chat view renders: those of the active session.
TranslatableIds ==
    IF activeSessionOf(sessions, activeSessionId) = None THEN {}
    ELSE LET ms == activeSessionOf(sessions, activeSessionId)[1].messages
         IN { ms[i].id : i \in { j \in 1..Len(ms) : ms[j].author = "ai" } }

handleTranslate(mid, lang) ==
    /\ ai
    /\ activeSessionId # ""
    /\ mid \in TranslatableIds
    /\ nOps' = nOps + 1
    /\ lastOp' = "handleTranslate"
    /\ Commit(updateSession(rev, sessions, activeSessionId,
                            [i \in 1..Len(sessions) |->
                                setTranslating(sessions[i], mid)]),
              activeSessionId, isSessionsModalOpen, ai, TRUE)
    /\ translating' = Append(translating,
                             [sid |-> activeSessionId, mid |-> mid, lang |-> lang,
                              late |-> FALSE])
    /\ UNCHANGED << rev, now, sourceCode, stage, isLoading, initPc, pendingNew,
                    turns, nextUid,
                    boot, wiped >>

\* late is not state of the source: it marks a request in flight when a
\* request issued after it for the same message has returned.
markLate(requests, j) ==
    [i \in 1..Len(requests) |->
        IF i < j /\ requests[i].sid = requests[j].sid /\ requests[i].mid = requests[j].mid
        THEN [requests[i] EXCEPT !.late = TRUE]
        ELSE requests[i]]

\* generateContent resolves (content is the translated text) or rejects
\* (content is the error placeholder).
TranslateReturned(j, content) ==
    /\ j \in 1..Len(translating)
    /\ Commit(updateSession(rev, sessions, translating[j].sid,
                            [i \in 1..Len(sessions) |->
                                setTranslation(sessions[i], translating[j].mid,
                                                      translating[j].lang, content)]),
              activeSessionId, isSessionsModalOpen, ai,
              newArray(rev, sessions, translating[j].sid))
    /\ translating' = RemoveAt(markLate(translating, j), j)
    /\ UNCHANGED << rev, now, sourceCode, stage, isLoading, initPc, pendingNew,
                    turns, nextUid,
                    nOps, boot, wiped >>

TranslateDone(j) ==
    /\ lastOp' = "handleTranslate.done"
    /\ TranslateReturned(j, TranslationReply)

TranslateFailed(j) ==
    /\ lastOp' = "handleTranslate.failed"
    /\ TranslateReturned(j, TranslateErrorText)

----------------------------------------------------------------------------
\* The environment: what the user, the clock and the model service do, within
\* the bounds.

\* The steps of initApp, the application serving its own source.
Startup ==
    \/ InitFetched(IndexTsx)
    \/ InitFailed(IndexTsx)
    \/ InitCreated
    \/ InitCreateFailed

\* Session management: startup, the session manager with create, activate,
\* delete (the last delete reloads the page) and rename, on any stored record.
StoreNext ==
    \/ now < ClockStart + MaxClock /\ Tick
    \/ Startup
    \/ OpenSessionsModal
    \/ CloseSessionsModal
    \/ nOps < MaxOps /\ pendingNew < MaxPendingNew /\ handleNewSession
    \/ NewSessionCreated
    \/ NewSessionFailed
    \/ \E id \in Ids(sessions) : nOps < MaxOps /\ handleLoadSession(id)
    \/ \E id \in Ids(sessions) :
          /\ nOps < MaxOps
          /\ remainingAfter(sessions, id) = <<>> => boot.reloads < MaxReloads
          /\ handleDeleteSession(id)
    \/ \E id \in Ids(sessions), typed \in RenameInputs :
          nOps < MaxOps /\ handleRenameSession(id, typed)

StoreSpec == Init /\ [][StoreNext]_vars

\* Turns: startup, submissions and their streams, translations, interleaved
\* with the creation and the activation of sessions.
TurnNext ==
    \/ now < ClockStart + TurnMaxClock /\ Tick
    \/ Startup
    \/ OpenSessionsModal
    \/ CloseSessionsModal
    \/ nOps < TurnMaxOps /\ pendingNew < MaxPendingNew /\ handleNewSession
    \/ NewSessionCreated
    \/ NewSessionFailed
    \/ \E id \in Ids(sessions) : nOps < TurnMaxOps /\ handleLoadSession(id)
    \/ \E inp \in Submissions :
          /\ nOps < TurnMaxOps
          /\ Len(turns) < MaxInFlight
          /\ handleSendMessage(inp.text, inp.att, inp.chain, inp.cons)
    \/ \E k \in 1..Len(turns), c \in Chunks :
          turns[k].chunks < MaxChunks /\ TurnChunk(k, c)
    \/ \E k \in 1..Len(turns) : TurnCompleted(k)
    \/ \E k \in 1..Len(turns) : TurnFailed(k)
    \/ \E mid \in TranslatableIds, lang \in Languages :
          nOps < TurnMaxOps /\ handleTranslate(mid, lang)
    \/ \E j \in 1..Len(translating) : TranslateDone(j)
    \/ \E j \in 1..Len(translating) : TranslateFailed(j)

\* The first start of the application: nothing is stored.
TurnInit == Init /\ boot.record = "missing"

TurnSpec == TurnInit /\ [][TurnNext]_vars

\* Turns interleaved with the creation and the activation of sessions, the
\* clock standing still.
LiveNext ==
    \/ Startup
    \/ OpenSessionsModal
    \/ CloseSessionsModal
    \/ nOps < TurnMaxOps /\ pendingNew < MaxPendingNew /\ handleNewSession
    \/ NewSessionCreated
    \/ NewSessionFailed
    \/ \E id \in Ids(sessions) : nOps < TurnMaxOps /\ handleLoadSession(id)
    \/ \E inp \in Submissions :
          /\ nOps < TurnMaxOps
          /\ Len(turns) < MaxInFlight
          /\ handleSendMessage(inp.text, inp.att, inp.chain, inp.cons)
    \/ \E k \in 1..Len(turns), c \in Chunks :
          turns[k].chunks < MaxChunks /\ TurnChunk(k, c)
    \/ \E k \in 1..Len(turns) : TurnCompleted(k)
    \/ \E k \in 1..Len(turns) : TurnFailed(k)

\* The model call of a turn in flight eventually finishes its stream or throws.
TurnEnds == \E k \in 1..Len(turns) : TurnCompleted(k) \/ TurnFailed(k)

TurnFairSpec == TurnInit /\ [][LiveNext]_vars /\ WF_vars(TurnEnds)

\* Session creation: startup and handleNewSession calls, up to MaxCreations of
\* them in flight at once (the button is not disabled while one is pending).
CreateNext ==
    \/ now < ClockStart + CreateMaxClock /\ Tick
    \/ Startup
    \/ OpenSessionsModal
    \/ CloseSessionsModal
    \/ nOps < CreateMaxOps /\ pendingNew < MaxCreations /\ handleNewSession
    \/ NewSessionCreated
    \/ NewSessionFailed

CreateSpec == TurnInit /\ [][CreateNext]_vars

\* Stage decisions and names: startup, renames, and submissions of every kind
\* with streams of up to StageMaxChunks chunks.
StageNext ==
    \/ Startup
    \/ OpenSessionsModal
    \/ CloseSessionsModal
    \/ \E id \in Ids(sessions), typed \in StageRenameInputs :
          nOps < StageMaxOps /\ handleRenameSession(id, typed)
    \/ \E inp \in StageSubmissions :
          /\ nOps < StageMaxOps
          /\ handleSendMessage(inp.text, inp.att, inp.chain, inp.cons)
    \/ \E k \in 1..Len(turns), c \in Chunks :
          turns[k].chunks < StageMaxChunks /\ TurnChunk(k, c)
    \/ \E k \in 1..Len(turns) : TurnCompleted(k)
    \/ \E k \in 1..Len(turns) : TurnFailed(k)

StageSpec == TurnInit /\ [][StageNext]_vars

\* Questions about the application and tasks, the application having fetched
\* any of the source texts.
RedactNext ==
    \/ \E src \in SourceTexts : InitFetched(src)
    \/ \E src \in SourceTexts : InitFailed(src)
    \/ InitCreated
    \/ InitCreateFailed
    \/ \E inp \in RedactSubmissions :
          /\ nOps < RedactMaxOps
          /\ handleSendMessage(inp.text, inp.att, inp.chain, inp.cons)
    \/ \E k \in 1..Len(turns), c \in Chunks :
          turns[k].chunks < RedactMaxChunks /\ TurnChunk(k, c)
    \/ \E k \in 1..Len(turns) : TurnCompleted(k)
    \/ \E k \in 1..Len(turns) : TurnFailed(k)

RedactSpec == TurnInit /\ [][RedactNext]_vars

\* A turn interleaved with the creation, the activation and the deletion of
\* sessions.
FrameNext ==
    \/ now < ClockStart + FrameMaxClock /\ Tick
    \/ Startup
    \/ OpenSessionsModal
    \/ CloseSessionsModal
    \/ nOps < FrameMaxOps /\ pendingNew < MaxPendingNew /\ handleNewSession
    \/ NewSessionCreated
    \/ NewSessionFailed
    \/ \E id \in Ids(sessions) : nOps < FrameMaxOps /\ handleLoadSession(id)
    \/ \E id \in Ids(sessions) :
          /\ nOps < FrameMaxOps
          /\ remainingAfter(sessions, id) = <<>> => boot.reloads < MaxReloads
          /\ handleDeleteSession(id)
    \/ \E inp \in FrameSubmissions :
          /\ nOps < FrameMaxOps
          /\ handleSendMessage(inp.text, inp.att, inp.chain, inp.cons)
    \/ \E k \in 1..Len(turns), c \in Chunks :
          turns[k].chunks < MaxChunks /\ TurnChunk(k, c)
    \/ \E k \in 1..Len(turns) : TurnCompleted(k)
    \/ \E k \in 1..Len(turns) : TurnFailed(k)

FrameSpec == TurnInit /\ [][FrameNext]_vars

\* Translation requests for the messages of the first session, overlapping
\* and returning in any order.
TranslateNext ==
    \/ Startup
    \/ \E mid \in TranslatableIds, lang \in TranslateLanguages :
          nOps < TranslateMaxOps /\ handleTranslate(mid, lang)
    \/ \E j \in 1..Len(translating) : TranslateDone(j)
    \/ \E j \in 1..Len(translating) : TranslateFailed(j)

TranslateSpec == TurnInit /\ [][TranslateNext]_vars

\* Turns whose streams are those of ParseStreams, chunk by chunk.
ParseNext ==
    \/ Startup
    \/ \E inp \in ParseSubmissions :
          /\ nOps < ParseMaxOps
          /\ handleSendMessage(inp.text, inp.att, inp.chain, inp.cons)
    \/ \E k \in 1..Len(turns), stream \in ParseStreams :
          \E n \in 1..Len(stream) :
             /\ turns[k].text = received(stream, n - 1)
             /\ TurnChunk(k, [text |-> stream[n], web |-> None])
    \/ \E k \in 1..Len(turns) : TurnCompleted(k)
    \/ \E k \in 1..Len(turns) : TurnFailed(k)

ParseSpec == TurnInit /\ [][ParseNext]_vars

----------------------------------------------------------------------------
\* Properties.

\* The sessions createNewSession built: the synthetic error session is uid 0.
Created(ss) == { i \in 1..Len(ss) : ss[i].uid # 0 }

\* A turn of session s is in flight.
InFlight(s) == \E k \in 1..Len(turns) : turns[k].sid = s.id

\* The session object s after the step.
After(s) == sessions'[CHOOSE j \in 1..Len(sessions') : sessions'[j].uid = s.uid]

\* The entries a completed turn adds to chatHistory.
TurnPair(turn) ==
    << [role |-> "user", parts |-> turn.parts],
       [role |-> "model", parts |-> <<turn.text>>] >>

\* The chatHistory of every session object.
Histories(ss) == { << ss[i].uid, ss[i].chatHistory >> : i \in 1..Len(ss) }

\* The ids of the sessions of ss with the largest createdAt.
Newest(ss) ==
    { ss[i].id : i \in { j \in 1..Len(ss) :
                           \A k \in 1..Len(ss) : ss[k].createdAt <= ss[j].createdAt } }

DeleteOps == { "handleDeleteSession", "handleDeleteSession.active" }

\* The steps that end initApp.
InitOps == { "initApp.fetched", "initApp.failed", "initApp.created", "initApp.createFailed" }

\* initApp has just ended, and the user has done nothing since the page started.
StartupEnded == initPc = "done" /\ lastOp \in InitOps /\ nOps = boot.ops

\* The turn is over: the stage awaits the user and isLoading is false.
TurnSettled == stage \in {"awaiting_task", "awaiting_critique"} /\ ~isLoading

\* C1: in both revisions, once handleSendMessage has moved the stage to
\* 'processing', and provided the model call finishes its stream or throws
\* (TurnFairSpec), the stage becomes 'awaiting_task' or 'awaiting_critique' and
\* isLoading false: the step that ends the stream sets both, and the step of a
\* throw sets the stage to 'awaiting_task'.
C1_TurnLeavesProcessing ==
    /\ (stage = "processing") ~> TurnSettled
    /\ [](lastOp = "handleSendMessage.completed" => TurnSettled)
    /\ [](lastOp = "handleSendMessage.failed" => stage = "awaiting_task" /\ ~isLoading)

\* A stream has ended with a draft: the stage awaits the critique.
C1_Witness ==
    lastOp = "handleSendMessage.completed" /\ stage = "awaiting_critique" /\ ~isLoading

\* C2: at most one turn is in flight at any time, and a submission made while
\* isLoading is true or the stage is 'processing' changes nothing of the
\* component (no message, no model call, no state), whatever session creation,
\* activation and translation steps are interleaved.
C2_OneTurnInFlight ==
    [][ /\ Len(turns') <= 1
        /\ (lastOp' = "handleSendMessage" /\ (isLoading \/ stage = "processing"))
              => UNCHANGED appState ]_vars

\* A submission was made while a stream was delivering and isLoading had been
\* reset by a session creation: the stage alone turned it down.
C2_Witness ==
    /\ lastOp = "handleSendMessage"
    /\ Len(turns) = 1
    /\ turns[1].chunks > 0
    /\ stage = "processing"
    /\ ~isLoading

\* C3: a turn changes chatHistory only when its stream has ended without error:
\* while a turn is in flight its session's chatHistory is what it was before the
\* submission, and the submission, a chunk and a failure leave every
\* chatHistory as it is.
C3_HistoryOnlyAfterStream ==
    /\ [](\A k \in 1..Len(turns) : \A i \in 1..Len(sessions) :
             sessions[i].uid = turns[k].uid =>
                 sessions[i].chatHistory = turns[k].histBefore)
    /\ [][ lastOp' \in { "handleSendMessage", "handleSendMessage.chunk",
                         "handleSendMessage.failed" }
              => Histories(sessions') = Histories(sessions) ]_vars

\* A turn failed: its AI message holds the error section and the chatHistory of
\* its session is still the seed pair.
C3_Witness ==
    /\ lastOp = "handleSendMessage.failed"
    /\ \E i \in 1..Len(sessions) :
          /\ Len(sessions[i].messages) = 3
          /\ sessions[i].messages[3].content = TurnErrorText
          /\ Len(sessions[i].chatHistory) = 2

\* C4 as stated: for every session createNewSession built, when no turn of it
\* is in flight, chatHistory has exactly one more entry than messages.
C4_Lockstep ==
    \A i \in Created(sessions) :
        ~InFlight(sessions[i]) =>
            Len(sessions[i].chatHistory) = Len(sessions[i].messages) + 1

\* C4 amended: a session createNewSession builds starts with one message and
\* the seed pair; a submission appends two messages to the log of its session
\* and nothing to any chatHistory; a turn whose stream ends without error
\* appends one user+model pair to the chatHistory of its session, the model
\* entry being the content of the last message of the log, and no message; a
\* failed turn appends nothing to either, so the two messages of a failed turn
\* stay in the log with no pair in chatHistory.
C4_PairPerCompletedTurn ==
    [][ /\ lastOp' \in {"initApp.created", "handleNewSession.created"} =>
              \E j \in 1..Len(sessions') :
                  /\ sessions'[j].uid = nextUid
                  /\ Len(sessions'[j].messages) = 1
                  /\ Len(sessions'[j].chatHistory) = 2
        /\ (lastOp' = "handleSendMessage" /\ turns' # turns) =>
              \A i \in 1..Len(sessions) :
                  /\ After(sessions[i]).chatHistory = sessions[i].chatHistory
                  /\ Len(After(sessions[i]).messages) - Len(sessions[i].messages)
                         \in {0, 2}
                  /\ sessions[i].uid = turns'[Len(turns')].uid =>
                         Len(After(sessions[i]).messages) = Len(sessions[i].messages) + 2
        /\ lastOp' = "handleSendMessage.completed" =>
              \A i \in 1..Len(sessions) :
                  /\ Len(After(sessions[i]).messages) = Len(sessions[i].messages)
                  /\ After(sessions[i]).chatHistory
                         \in { sessions[i].chatHistory,
                               sessions[i].chatHistory \o TurnPair(turns[1]) }
                  /\ sessions[i].uid = turns[1].uid =>
                         /\ After(sessions[i]).chatHistory
                                = sessions[i].chatHistory \o TurnPair(turns[1])
                         /\ turns[1].text
                                = sessions[i].messages[Len(sessions[i].messages)].content
        /\ lastOp' = "handleSendMessage.failed" =>
              \A i \in 1..Len(sessions) :
                  /\ Len(After(sessions[i]).messages) = Len(sessions[i].messages)
                  /\ After(sessions[i]).chatHistory = sessions[i].chatHistory ]_vars

\* A session after a failed turn and a turn that completed: five messages,
\* the seed pair and one more pair.
C4_Witness ==
    /\ lastOp = "handleSendMessage.completed"
    /\ \E i \in Created(sessions) :
          /\ Len(sessions[i].messages) = 5
          /\ sessions[i].messages[3].content = TurnErrorText
          /\ Len(sessions[i].chatHistory) = 4

\* C5: after initialization, when the collection is non-empty, activeSessionId
\* is the id of exactly one session of the collection.
C5_ExactlyOneActive ==
    (initPc = "done" /\ sessions # <<>>) =>
        Cardinality({ i \in 1..Len(sessions) : sessions[i].id = activeSessionId }) = 1

\* C6: a delete of the active session that leaves sessions behind makes a
\* remaining session with the largest createdAt the active one.
C6_DeleteActivePromotesNewest ==
    [][ (/\ lastOp' \in DeleteOps
         /\ sessions' # <<>>
         /\ activeSessionId \notin Ids(sessions'))
           => activeSessionId' \in Newest(sessions') ]_vars

\* The active session was deleted, and sessions of different age remain.
C6_Witness ==
    /\ lastOp = "handleDeleteSession.active"
    /\ Len(sessions) >= 2
    /\ \E i, j \in 1..Len(sessions) : sessions[i].createdAt < sessions[j].createdAt
    /\ activeSessionId \in Newest(sessions)

\* C7: the delete of the only remaining session removes both keys and restarts
\* the page; after the restart no deleted session is in memory or in storage
\* again, the startup finds no record and creates a session, and when it ends,
\* its calls having succeeded, that fresh session is the only one and is active.
C7_LastDeleteStartsAfresh ==
    /\ [][ (lastOp' \in DeleteOps /\ Cardinality(Ids(sessions)) = 1)
              => /\ storage' = EmptyStorage
                 /\ sessions' = <<>>
                 /\ stage' = "initializing"
                 /\ initPc' = "fetch"
                 /\ boot'.reloads = boot.reloads + 1 ]_vars
    /\ [](boot.reloads > 0 =>
            /\ boot.record = "missing"
            /\ boot.outcome \in {"pending", "created", "external"}
            /\ \A i \in 1..Len(sessions) : sessions[i].uid \notin wiped
            /\ storage.zero_sessions # None =>
                   \A s \in { parse(storage.zero_sessions[1])[i] :
                                i \in 1..Len(storage.zero_sessions[1].doc) } :
                       s.uid \notin wiped
            /\ (StartupEnded /\ boot.outcome = "created") =>
                   /\ sessions = << newSession(rev, SeedReply, now, nextUid - 1) >>
                   /\ activeSessionId = sessions[1].id
                   /\ stage = "awaiting_task"
                   /\ ~isLoading)

\* The startup after the delete of the last session has ended with its session.
C7_Witness ==
    /\ boot.reloads > 0
    /\ wiped # {}
    /\ StartupEnded
    /\ boot.outcome = "created"
    /\ Len(sessions) = 1

\* C8: after each step that changes the collection or the active pointer and
\* leaves a non-empty collection with activeSessionId set, zero_sessions is the
\* serialization of the collection in memory, in its order, and
\* zero_active_session_id is activeSessionId.
C8_PersistedIsMemory ==
    [][ (/\ sessions' # sessions \/ activeSessionId' # activeSessionId
         /\ sessions' # <<>>
         /\ activeSessionId' # "")
           => /\ storage'.zero_sessions = Some(stringify(sessions'))
              /\ storage'.zero_active_session_id = Some(activeSessionId') ]_vars

\* C9: when the startup found both keys and a zero_sessions that parses, then
\* at its end (its fetches having succeeded, the session manager closed) the
\* sessions in memory are the stored ones in the stored order, activeSessionId
\* is the stored id, the stage is 'awaiting_task', no session was created and
\* what is stored is the record that was found.
C9_StoredRecordLoaded ==
    (/\ boot.record = "valid"
     /\ StartupEnded
     /\ boot.outcome # "external"
     /\ ~isSessionsModalOpen)
        => /\ sessions = parse(boot.saved.zero_sessions[1])
           /\ activeSessionId = boot.saved.zero_active_session_id[1]
           /\ stage = "awaiting_task"
           /\ boot.outcome = "loaded"
           /\ storage = boot.saved

\* C10: in both revisions, when the startup found no record or one that does
\* not parse, then at its end (its fetches and its model call having succeeded)
\* the stage is 'awaiting_task', the collection is one freshly created session,
\* that session is active, and the record found is gone from storage.
C10_BadRecordFallsBackToFresh ==
    (/\ boot.record \in {"missing", "corrupt"}
     /\ StartupEnded
     /\ boot.outcome # "external")
        => /\ stage = "awaiting_task"
           /\ boot.outcome = "created"
           /\ sessions = << newSession(rev, SeedReply, now, nextUid - 1) >>
           /\ activeSessionId = "session_" \o ToString(now)
           /\ storage.zero_sessions = Some(stringify(sessions))

\* The full response text holds a draft and no final output.
DraftOnly(text) == includes(text, DraftTag) /\ ~includes(text, FinalTag)

\* The step is the completion of turn k.
Completes(k) == lastOp' = "handleSendMessage.completed" /\ turns' = RemoveAt(turns, k)

\* C11: in both revisions, when the stream of a turn completes that was
\* submitted in normal mode and was not a detected meta question, and the full
\* response text contains "[Draft]" and not "[Final Output]", the stage after
\* the completion is 'awaiting_critique', whatever text the user submitted.
C11_DraftAwaitsCritique ==
    [][ \A k \in 1..Len(turns) :
          (/\ Completes(k)
           /\ ~turns[k].chain
           /\ ~turns[k].meta
           /\ DraftOnly(turns[k].text))
             => stage' = "awaiting_critique" ]_vars

\* C12: the stage becomes 'awaiting_critique' only by the completion of a turn
\* submitted in non-chain mode whose full response text contains "[Draft]" and
\* not "[Final Output]"; a completion of a chain-mode turn, of a meta question
\* or with a response that contains "[Final Output]" sets 'awaiting_task'.
C12_CritiqueOnlyAfterDraft ==
    [][ /\ (stage' = "awaiting_critique" /\ stage # "awaiting_critique")
              => \E k \in 1..Len(turns) :
                    /\ Completes(k)
                    /\ ~turns[k].chain
                    /\ DraftOnly(turns[k].text)
        /\ \A k \in 1..Len(turns) :
              (/\ Completes(k)
               /\ \/ turns[k].chain
                  \/ turns[k].meta
                  \/ includes(turns[k].text, FinalTag))
                 => stage' = "awaiting_task" ]_vars

\* A draft has just been delivered and the stage awaits the critique.
C12_Witness ==
    /\ lastOp = "handleSendMessage.completed"
    /\ stage = "awaiting_critique"
    /\ \E i \in 1..Len(sessions) :
          /\ Len(sessions[i].messages) = 3
          /\ DraftOnly(sessions[i].messages[3].content)

\* C13: when the stage is 'error' and a handleNewSession call succeeds, the
\* stage is 'awaiting_task' and the new session is the active one, so that
\* handleSendMessage accepts a task.
C13_NewSessionRecovers ==
    [][ (stage = "error" /\ lastOp' = "handleNewSession.created")
           => /\ stage' = "awaiting_task"
              /\ activeSessionId' = "session_" \o ToString(now)
              /\ activeSessionOf(sessions', activeSessionId') # None ]_vars

\* The step is an accepted submission: it starts the turn Submitted.
Submits == lastOp' = "handleSendMessage" /\ Len(turns') = Len(turns) + 1

Submitted == turns'[Len(turns')]

\* C14: a turn is sent on a chat whose history is the chatHistory of the
\* session that receives the turn's user message and AI message: at every
\* accepted submission some session receives the two messages, and every
\* session that receives them has the history the chat was created from.
C14_TurnUsesChatOfItsSession ==
    [][ Submits =>
          /\ \E i \in 1..Len(sessions) : After(sessions[i]).messages # sessions[i].messages
          /\ \A i \in 1..Len(sessions) :
                After(sessions[i]).messages # sessions[i].messages
                   => Submitted.chat = sessions[i].chatHistory ]_vars

\* The session object s is still in the collection after the step.
Stays(s) == \E j \in 1..Len(sessions') : sessions'[j].uid = s.uid

\* What of a message is fixed once it is written.
Written(m) == << m.id, m.author, m.content, m.citations >>

\* Message p of session s is the AI placeholder of a turn in flight.
Placeholder(s, p) ==
    /\ p = Len(s.messages)
    /\ s.messages[p].author = "ai"
    /\ \E k \in 1..Len(turns) :
          turns[k].sid = s.id /\ turns[k].placeholderId = s.messages[p].id

\* C15: the id, author, content and citations of a message change only by a
\* stream chunk or a failure of the turn whose AI placeholder the message is;
\* every other message of every session keeps the four fields in every step.
C15_OnlyPlaceholderRewritten ==
    [][ \A i \in 1..Len(sessions) :
          Stays(sessions[i]) =>
             /\ Len(After(sessions[i]).messages) >= Len(sessions[i].messages)
             /\ \A p \in 1..Len(sessions[i].messages) :
                   Written(After(sessions[i]).messages[p]) # Written(sessions[i].messages[p])
                      => /\ lastOp' \in { "handleSendMessage.chunk",
                                          "handleSendMessage.failed" }
                         /\ Placeholder(sessions[i], p) ]_vars

\* The steps of handleTranslate, and the request of the step: the one the
\* step starts, or the one whose model call returns.
TranslateOps == { "handleTranslate", "handleTranslate.done", "handleTranslate.failed" }

Request ==
    IF lastOp' = "handleTranslate" THEN translating'[Len(translating')]
    ELSE translating[CHOOSE j \in 1..Len(translating) :
                         translating' = RemoveAt(markLate(translating, j), j)]

\* The places (session object, position) of the messages the step changes.
Rewritten ==
    UNION { { << sessions[i].uid, p >> :
                 p \in { q \in 1..Len(sessions[i].messages) :
                           After(sessions[i]).messages[q] # sessions[i].messages[q] } } :
            i \in 1..Len(sessions) }

\* C16: a step of a translation request for message m of session s (the start
\* of the request, its success, its failure) leaves activeSessionId, the stage,
\* the collection and every field of every session but the messages as they
\* are, changes no field of a message but translation and isTranslating, and
\* changes at most one message, which is m; a failure sets the translation of
\* m to the error placeholder.
C16_TranslationTouchesOneMessage ==
    [][ lastOp' \in TranslateOps =>
          /\ activeSessionId' = activeSessionId
          /\ stage' = stage
          /\ Len(sessions') = Len(sessions)
          /\ \A i \in 1..Len(sessions) :
                /\ Stays(sessions[i])
                /\ [After(sessions[i]) EXCEPT !.messages = sessions[i].messages]
                      = sessions[i]
                /\ Len(After(sessions[i]).messages) = Len(sessions[i].messages)
                /\ \A p \in 1..Len(sessions[i].messages) :
                      [After(sessions[i]).messages[p] EXCEPT
                          !.translation = sessions[i].messages[p].translation,
                          !.isTranslating = sessions[i].messages[p].isTranslating]
                        = sessions[i].messages[p]
                /\ \A p \in 1..Len(sessions[i].messages) :
                      << sessions[i].uid, p >> \in Rewritten
                         => /\ sessions[i].id = Request.sid
                            /\ sessions[i].messages[p].id = Request.mid
          /\ Cardinality(Rewritten) <= 1
          /\ lastOp' = "handleTranslate.failed" =>
                \A i \in 1..Len(sessions) :
                   i = findIndex(sessions, Request.sid) =>
                      \A p \in 1..Len(sessions[i].messages) :
                         sessions[i].messages[p].id = Request.mid =>
                            After(sessions[i]).messages[p].translation
                               = Some([lang |-> Request.lang,
                                       content |-> TranslateErrorText]) ]_vars

\* The ids of the sessions of ss are pairwise distinct.
DistinctIds(ss) == \A i, j \in 1..Len(ss) : ss[i].id = ss[j].id => i = j

\* C17: the ids of the sessions of the collection are pairwise distinct in
\* every reachable state, however many sessions are created and whenever
\* their creations complete.
C17_SessionIdsDistinct == DistinctIds(sessions)

\* C18: within every session the ids of the messages are pairwise distinct in
\* every reachable state, whatever turns were submitted at whatever clock
\* values.
C18_MessageIdsDistinct ==
    \A i \in 1..Len(sessions) :
       \A p, q \in 1..Len(sessions[i].messages) :
          sessions[i].messages[p].id = sessions[i].messages[q].id => p = q

\* The step ends turn k: its stream completes or its model call throws.
Ends(k) ==
    /\ lastOp' \in { "handleSendMessage.completed", "handleSendMessage.failed" }
    /\ turns' = RemoveAt(turns, k)

\* C19: when the turn of a session's first user message ends and the name of
\* the session is still the default 'New Session', the name becomes the text of
\* that message truncated to NameLimit characters; the end of a turn changes no
\* name that differs from the default.
C19_FirstMessageNamesSession ==
    [][ \A k \in 1..Len(turns) : \A i \in 1..Len(sessions) :
          (Ends(k) /\ Stays(sessions[i])) =>
             /\ (/\ sessions[i].uid = turns[k].uid
                 /\ userCount(sessions[i]) = 1
                 /\ sessions[i].name = NewSessionName)
                   => After(sessions[i]).name = substring(turns[k].userText, NameLimit)
             /\ sessions[i].name # NewSessionName
                   => After(sessions[i]).name = sessions[i].name ]_vars

\* The characters the Base64 text stands for.
base64Index(c) == CHOOSE n \in 0..63 : base64Char(n) = c

RECURSIVE atob(_)
atob(text) ==
    IF Len(text) < 4 THEN << >>
    ELSE IF Len(text) >= 8
    THEN LET h == 4 * ((Len(text) \div 4) \div 2)
         IN atob(SubSeq(text, 1, h)) \o atob(SubSeq(text, h + 1, Len(text)))
    ELSE LET a == base64Index(SubSeq(text, 1, 1))
             b == base64Index(SubSeq(text, 2, 2))
             c == SubSeq(text, 3, 3)
             d == SubSeq(text, 4, 4)
         IN IF c = "=" THEN << a * 4 + (b \div 16) >>
            ELSE IF d = "="
            THEN << a * 4 + (b \div 16), (b % 16) * 16 + (base64Index(c) \div 4) >>
            ELSE << a * 4 + (b \div 16), (b % 16) * 16 + (base64Index(c) \div 4),
                    (base64Index(c) % 4) * 64 + base64Index(d) >>

\* What the model reads of index.tsx when it decodes a meta prompt.
Decoded(prompt) ==
    atob(SubSeq(prompt, Len(MetaPromptHead) + Len(FileLabel) + 1,
                indexOf(prompt, MetaPromptTail, 1) - 1))

\* The runs of PartLen characters of a secret.
Parts(secret) == { SubSeq(secret, i, i + PartLen - 1) : i \in 1..(Len(secret) - PartLen + 1) }

Marker == codes("[REDACTED FOR SELF-ANALYSIS]")

\* C20: in both revisions, when index.tsx declares MASTER_PROMPT as a secret
\* between backticks followed by a semicolon (the secret may hold escaped
\* backticks), the text a meta prompt encodes holds the placeholder marker
\* and no part of the secret.
C20_PromptHoldsNoSecret ==
    \A k \in 1..Len(turns) : \A secret \in Secrets :
        sourceCode = Some(sourceOf(secret)) /\ includes(turns[k].prompt, MetaTag)
            => /\ indexOf(Decoded(turns[k].prompt), utf8(Marker), 1) # 0
               /\ \A part \in Parts(secret) :
                     indexOf(Decoded(turns[k].prompt), utf8(part), 1) = 0

\* The sections AIMessageBlock renders for a parsed response: in chain mode
\* those ChainProcessVisualizer is given.
Shown(r, parsed) ==
    IF r = 2 THEN parsed
    ELSE IF ~parsed.isChainMode THEN parsed.data
    ELSE parsed.data.task \o parsed.data.constraints \o parsed.data.refinedAnswers

\* C21: for every text that is not empty (white space only, or with a
\* 'Refined Answer' title, included) parseResponse returns at least one
\* section.
C21_ParseGivesASection ==
    \A k \in 1..Len(turns) :
        turns[k].text # "" => Len(Shown(rev, parseResponse(rev, turns[k].text))) >= 1

\* The sections of b are those of a, in their places and under their titles,
\* with content that is the same or longer, and perhaps more sections.
Extends(a, b) ==
    /\ Len(a) <= Len(b)
    /\ \A i \in 1..Len(a) :
          /\ b[i].title = a[i].title
          /\ startsWith(b[i].content, a[i].content)

\* C22: parseResponse is monotone on the growing text of a stream: each
\* section shown for the text before a chunk is shown for the text after it,
\* in the same place, under the same title, with content that is unchanged or
\* extended.
C22_ParseMonotone ==
    [][ lastOp' = "handleSendMessage.chunk" =>
          \A k \in 1..Len(turns) :
             Extends(Shown(rev, parseResponse(rev, turns[k].text)),
                     Shown(rev, parseResponse(rev, turns'[k].text))) ]_vars

IsRefined(section) == startsWith(section.title, RefinedTitle)

\* C23: in the first revision parseResponse gives isChainMode = true exactly
\* when a parsed section title starts with 'Refined Answer', and then
\* refinedAnswers holds those sections, and only those, in the order of the
\* text.
C23_ChainModeCollectsRefined ==
    \A k \in 1..Len(turns) :
        rev = 1 =>
           LET parsed == parseResponse(1, turns[k].text)
               sections == sectionsOf(turns[k].text)
           IN /\ parsed.isChainMode <=> \E i \in 1..Len(sections) : IsRefined(sections[i])
              /\ parsed.isChainMode =>
                    parsed.data.refinedAnswers = SelectSeq(sections, IsRefined)

C23_Witness ==
    \E k \in 1..Len(turns) :
        /\ rev = 1
        /\ turns[k].text = received(ChainStream, Len(ChainStream))
        /\ parseResponse(1, turns[k].text).isChainMode
        /\ [i \in 1..5 |-> parseResponse(1, turns[k].text).data.refinedAnswers[i].title]
              = << "Refined Answer 1/5", "Refined Answer 2/5", "Refined Answer 3/5",
                   "Refined Answer 4/5", "Refined Answer 5/5" >>
        /\ Len(parseResponse(1, turns[k].text).data.refinedAnswers) = 5

ModeMarkers == { "[MODE: NORMAL]\n", "[MODE: CHAIN]\n" }

\* The prompt is a constraints block, there exactly when constraints stand
\* and then naming each of them, a mode marker and the text.
BlockMarkerText(prompt, cons, text) ==
    \E n \in 0..Len(prompt) : \E marker \in ModeMarkers :
        /\ prompt = SubSeq(prompt, 1, n) \o marker \o text
        /\ n = 0 <=> cons = << >>
        /\ \A i \in 1..Len(cons) : includes(SubSeq(prompt, 1, n), cons[i])

\* C24: in both revisions the prompt of a fresh task that is no meta question
\* is the block of the standing constraints (there exactly when the list is
\* not empty), the mode marker and the text of the task, and the prompt of a
\* critique submitted in 'awaiting_critique' is the text of the critique.
C24_PromptOfTaskAndCritique ==
    [][ lastOp' = "handleSendMessage" /\ Len(turns') = Len(turns) + 1 =>
          LET turn == turns'[Len(turns')]
          IN /\ stage = "awaiting_critique" => turn.prompt = turn.userText
             /\ (stage = "awaiting_task" /\ ~turn.meta) =>
                   BlockMarkerText(turn.prompt, turn.cons, turn.userText) ]_vars

\* C25: when the model call of a creation started by handleNewSession fails,
\* isLoading is false afterwards, the sessions and activeSessionId are as they
\* were, and the session that was active accepts a task.
C25_FailedCreationIsLocal ==
    [][ lastOp' = "handleNewSession.failed" =>
          /\ ~isLoading'
          /\ sessions' = sessions
          /\ activeSessionId' = activeSessionId
          /\ (stage \in {"awaiting_task", "awaiting_critique"}
                 /\ activeSessionOf(sessions, activeSessionId) # None) =>
                submissionAccepted(isLoading', chat',
                                   activeSessionOf(sessions', activeSessionId'),
                                   stage', "Sum 2+2", FALSE) ]_vars

\* C26: every AI message that carries parsedData carries the parseResponse of
\* its content as it is now, also after a turn failed in the middle of its
\* stream.
C26_ParsedDataIsOfContent ==
    \A i \in 1..Len(sessions) : \A p \in 1..Len(sessions[i].messages) :
        LET m == sessions[i].messages[p]
        IN (m.author = "ai" /\ m.parsedData # None) =>
              m.parsedData = Some(parseResponse(rev, m.content))

\* C27: whenever the stage is 'awaiting_critique' the last message of the
\* active session is an AI response whose turn has ended and which holds
\* "[Draft]" and not "[Final Output]", whatever sessions were activated,
\* created or deleted in between.
C27_CritiqueHasPendingDraft ==
    stage = "awaiting_critique" =>
        /\ activeSessionOf(sessions, activeSessionId) # None
        /\ LET s == activeSessionOf(sessions, activeSessionId)[1]
           IN /\ Len(s.messages) > 0
              /\ s.messages[Len(s.messages)].author = "ai"
              /\ DraftOnly(s.messages[Len(s.messages)].content)
              /\ ~InFlight(s)

\* The ids of the sessions of the stored record.
StoredIds(st) ==
    IF st.zero_sessions = None \/ ~st.zero_sessions[1].ok THEN {}
    ELSE Ids(parse(st.zero_sessions[1]))

\* C28: a failed initialization leaves the durable record alone: the
\* synthetic error session is never stored, and when the startup found a
\* valid record and ended in stage 'error' the record is still stored as it
\* was found.
C28_InitFailureKeepsRecord ==
    /\ ErrorSessionId \notin StoredIds(storage)
    /\ (boot.record = "valid" /\ StartupEnded /\ stage = "error")
          => storage = boot.saved

\* C29: for every message m, isTranslating is true exactly while a translation
\* request for m is in flight, and m.translation is the result of the request
\* issued last among those that returned: a request that returns after one
\* issued later leaves the translation as it is.  Two requests for one message
\* may overlap and return in either order.
C29_TranslationOfLastRequest ==
    [][ /\ \A i \in 1..Len(sessions') : \A p \in 1..Len(sessions'[i].messages) :
              (sessions'[i].messages[p].isTranslating = Some(TRUE))
                 <=> \E j \in 1..Len(translating') :
                        /\ translating'[j].sid = sessions'[i].id
                        /\ translating'[j].mid = sessions'[i].messages[p].id
        /\ lastOp' \in {"handleTranslate.done", "handleTranslate.failed"} =>
              \A i \in 1..Len(sessions) : \A p \in 1..Len(sessions[i].messages) :
                 (Request.sid = sessions[i].id /\ Request.mid = sessions[i].messages[p].id
                    /\ Request.late)
                    => After(sessions[i]).messages[p].translation
                          = sessions[i].messages[p].translation ]_vars

\* The steps of a turn, and the turn of the step.
TurnOps ==
    { "handleSendMessage", "handleSendMessage.chunk", "handleSendMessage.completed",
      "handleSendMessage.failed" }

TurnOfStep ==
    IF lastOp' = "handleSendMessage" THEN Submitted
    ELSE IF lastOp' = "handleSendMessage.chunk"
    THEN turns[CHOOSE k \in 1..Len(turns) : turns'[k].chunks # turns[k].chunks]
    ELSE turns[CHOOSE k \in 1..Len(turns) : turns' = RemoveAt(turns, k)]

\* What the step of the turn does to its session s.
Applied(s) ==
    IF lastOp' = "handleSendMessage"
    THEN Len(After(s).messages) = Len(s.messages) + 2
    ELSE IF lastOp' = "handleSendMessage.chunk"
    THEN After(s).messages[Len(s.messages)].content # s.messages[Len(s.messages)].content
    ELSE IF lastOp' = "handleSendMessage.completed"
    THEN After(s).chatHistory = s.chatHistory \o TurnPair(TurnOfStep)
    ELSE After(s).messages[Len(s.messages)].content = TurnErrorText

\* C30: every update of a turn (the two messages, the chunks, the error
\* text, the history, the name) goes to the session that was active when the
\* turn was submitted and changes no other session, whatever session was
\* activated or created meanwhile; when that session was deleted the update
\* changes no session.
C30_TurnUpdatesItsSessionOnly ==
    [][ (lastOp' \in TurnOps /\ (lastOp' = "handleSendMessage" => Submits)) =>
          /\ Len(sessions') = Len(sessions)
          /\ \A i \in 1..Len(sessions) :
                /\ Stays(sessions[i])
                /\ IF sessions[i].uid = TurnOfStep.uid
                   THEN Applied(sessions[i])
                   ELSE After(sessions[i]) = sessions[i] ]_vars

====
